---- MODULE Spec2Model ----
(***************************************************************************)
(* Model of src/src/index.ts: AlertNowBuilder (setDriver, setWebhook,      *)
(* build) and AlertNow (send, _sendDiscord with its asynchronous           *)
(* continuations).                                                         *)
(*                                                                         *)
(* JavaScript strings are sequences of one-character strings, so that      *)
(* toLowerCase, String.prototype.replace and JSON.stringify are computed   *)
(* character by character the way the runtime computes them.               *)
(***************************************************************************)
EXTENDS Integers, Sequences, FiniteSets, TLC

VARIABLES
    driver,         \* AlertNowBuilder.driver      (index.ts:124)
    webhookUrl,     \* AlertNowBuilder.webhookUrl  (index.ts:125)
    senders,        \* the AlertNow instances build() has returned, in order
    calls,          \* one record per call of AlertNow.send, in call order
    requests,       \* the fetch() invocations made so far, in order
    reports,        \* the console.error invocations made so far, in order
    lastCall,       \* the public call that was made last and how it ended
    everDriverSet,  \* history: some setDriver call has returned normally
    everWebhookSet  \* history: some setWebhook call has returned normally

vars == <<driver, webhookUrl, senders, calls, requests, reports, lastCall,
          everDriverSet, everWebhookSet>>

(***************************************************************************)
(* Bounds of the model.                                                    *)
(***************************************************************************)
\* build() calls that return an instance (builder and lifecycle specifications)
MaxSenders == 2
\* send() calls in the lifecycle specification
MaxSends == 1
\* send() calls in the dispatch specification
MaxCalls == 1
\* send() calls in the concurrency specification (their exchanges overlap)
MaxOverlap == 2
\* send() calls in the rendering specification
MaxRenders == 1

(***************************************************************************)
(* JavaScript values.                                                      *)
(***************************************************************************)
Str(s) == [type |-> "string", str |-> s, num |-> 0]

Num(n) == [type |-> "number", str |-> <<>>, num |-> n]

Null == [type |-> "null", str |-> <<>>, num |-> 0]

Undefined == [type |-> "undefined", str |-> <<>>, num |-> 0]

\* typeof v === 'string'
IsString(v) == v.type = "string"

\* ToBoolean(v): "", 0, null and undefined are falsy
Truthy(v) ==
    CASE v.type = "string" -> v.str # <<>>
      [] v.type = "number" -> v.num # 0
      [] OTHER -> FALSE

\* The data argument: undefined, null, or an object whose own enumerable
\* properties are entries, in insertion order.  A property is a string or
\* (cyclic) a reference back to the object itself.
DataUndefined == [type |-> "undefined", entries |-> <<>>]

DataNull == [type |-> "null", entries |-> <<>>]

DataObject(es) == [type |-> "object", entries |-> es]

Prop(k, v) == [key |-> k, cyclic |-> FALSE, str |-> v]

SelfProp(k) == [key |-> k, cyclic |-> TRUE, str |-> <<>>]

(***************************************************************************)
(* String helpers.                                                         *)
(***************************************************************************)
\* the character U+0060 (grave accent), which a TLA+ string cannot hold
BQ == "BQ"

UpperChars == <<"A","B","C","D","E","F","G","H","I","J","K","L","M",
                "N","O","P","Q","R","S","T","U","V","W","X","Y","Z">>

LowerChars == <<"a","b","c","d","e","f","g","h","i","j","k","l","m",
                "n","o","p","q","r","s","t","u","v","w","x","y","z">>

\* String.prototype.toLowerCase on one character
LowerChar(c) ==
    IF \E i \in DOMAIN UpperChars : UpperChars[i] = c
    THEN LowerChars[CHOOSE i \in DOMAIN UpperChars : UpperChars[i] = c]
    ELSE c

\* String.prototype.toLowerCase
ToLowerCase(s) == [i \in DOMAIN s |-> LowerChar(s[i])]

\* String.prototype.indexOf(pat) + 1: the position of the first occurrence
\* of pat in s, 0 when there is none
IndexOf(s, pat) ==
    LET hits == {i \in 1..(Len(s) - Len(pat) + 1) :
                    SubSeq(s, i, i + Len(pat) - 1) = pat}
    IN IF hits = {} THEN 0
       ELSE CHOOSE i \in hits : \A j \in hits : i <= j

\* GetSubstitution (ECMA-262) for a string pattern: no captures exist, so
\* only $$, $&, $BQ and $' are special; $n and $< stay literal.
RECURSIVE GetSubstitution(_, _, _, _, _)
GetSubstitution(matched, s, pos, repl, i) ==
    IF i > Len(repl) THEN <<>>
    ELSE IF repl[i] = "$" /\ i < Len(repl) /\ repl[i+1] \in {"$", "&", BQ, "'"}
    THEN (CASE repl[i+1] = "$" -> <<"$">>
            [] repl[i+1] = "&" -> matched
            [] repl[i+1] = BQ -> SubSeq(s, 1, pos - 1)
            [] repl[i+1] = "'" -> SubSeq(s, pos + Len(matched), Len(s)))
         \o GetSubstitution(matched, s, pos, repl, i + 2)
    ELSE <<repl[i]>> \o GetSubstitution(matched, s, pos, repl, i + 1)

\* String.prototype.replace(pat, repl) with a string pattern: the first
\* occurrence only
Replace(s, pat, repl) ==
    LET pos == IndexOf(s, pat)
    IN IF pos = 0 THEN s
       ELSE SubSeq(s, 1, pos - 1)
            \o GetSubstitution(pat, s, pos, repl, 1)
            \o SubSeq(s, pos + Len(pat), Len(s))

\* Number::toString for a non-negative integer
Digits == <<"0","1","2","3","4","5","6","7","8","9">>

RECURSIVE NumToStr(_)
NumToStr(n) ==
    IF n < 10 THEN <<Digits[n + 1]>>
    ELSE NumToStr(n \div 10) \o <<Digits[(n % 10) + 1]>>

(***************************************************************************)
(* JSON.stringify.                                                         *)
(***************************************************************************)
\* QuoteJSONString: how one character is written inside a JSON string (the
\* characters of the model's alphabet that are escaped are ", \ and newline)
EscapeChar(c) ==
    CASE c = "\"" -> <<"\\", "\"">>
      [] c = "\\" -> <<"\\", "\\">>
      [] c = "\n" -> <<"\\", "n">>
      [] OTHER -> <<c>>

\* the escapes of s[lo..hi], concatenated (halving keeps the evaluation shallow)
RECURSIVE EscapeRange(_, _, _)
EscapeRange(s, lo, hi) ==
    IF lo > hi THEN <<>>
    ELSE IF lo = hi THEN EscapeChar(s[lo])
    ELSE LET mid == (lo + hi) \div 2
         IN EscapeRange(s, lo, mid) \o EscapeRange(s, mid + 1, hi)

EscapeJSON(s) == EscapeRange(s, 1, Len(s))

QuoteJSON(s) == <<"\"">> \o EscapeJSON(s) \o <<"\"">>

\* SerializeJSONObject of the entries from index i on, comma separated
RECURSIVE SerializeEntries(_, _)
SerializeEntries(es, i) ==
    IF i > Len(es) THEN <<>>
    ELSE (IF i > 1 THEN <<",">> ELSE <<>>)
         \o QuoteJSON(es[i].key) \o <<":">> \o QuoteJSON(es[i].str)
         \o SerializeEntries(es, i + 1)

\* JSON.stringify(data) throws a TypeError on a cyclic structure
StringifyThrows(data) ==
    \E i \in DOMAIN data.entries : data.entries[i].cyclic

\* JSON.stringify(data) for an object that serializes
JSONStringify(data) == <<"{">> \o SerializeEntries(data.entries, 1) \o <<"}">>

(***************************************************************************)
(* AlertNow: rendering (index.ts:11, 66-78).                               *)
(***************************************************************************)
\* DEF_TEMPLATE (index.ts:11)
DEF_TEMPLATE ==
    <<"*","*","$","t","i","t","l","e","*","*","\n","\n",
      "m","e","s","s","a","g","e",":",BQ,BQ,BQ,"\n","\n",
      "$","m","e","s","s","a","g","e",BQ,BQ,BQ,"\n",
      "$","d","a","t","a","\n">>

\* The default parameter value data = {} replaces undefined only
DefaultData(data) == IF data.type = "undefined" THEN DataObject(<<>>) ELSE data

\* data != null && Object.keys(data).length > 0
HasKeys(data) == data.type = "object" /\ Len(data.entries) > 0

\* _sendDiscord throws before reaching fetch (JSON.stringify(data) throws)
RenderThrows(data) == HasKeys(DefaultData(data)) /\ StringifyThrows(DefaultData(data))

\* dataStr of _sendDiscord
DataStr(data) ==
    IF HasKeys(DefaultData(data))
    THEN <<"d","a","t","a",":",BQ,BQ,BQ,"\n","\n">>
         \o JSONStringify(DefaultData(data))
         \o <<BQ,BQ,BQ,"\n">>
    ELSE <<>>

\* content of _sendDiscord
Content(title, message, data) ==
    Replace(Replace(Replace(DEF_TEMPLATE,
                            <<"$","t","i","t","l","e">>, title),
                    <<"$","m","e","s","s","a","g","e">>, message),
            <<"$","d","a","t","a">>, DataStr(data))

\* JSON.stringify({content})
PayloadBody(content) ==
    <<"{">> \o QuoteJSON(<<"c","o","n","t","e","n","t">>) \o <<":">>
    \o QuoteJSON(content) \o <<"}">>

\* Faulty variant: the payload is a buffer shared by all calls: a later call sends
\* what the first call rendered
FetchRequestShared(c, url, content) ==
    [call |-> c, url |-> url, method |-> "POST",
     contentType |-> "application/json",
     body |-> IF requests = <<>> THEN PayloadBody(content) ELSE requests[1].body]

\* the fetch() invocation of _sendDiscord
FetchRequest(c, url, content) ==
    [call |-> c, url |-> url, method |-> "POST",
     contentType |-> "application/json", body |-> PayloadBody(content)]

(***************************************************************************)
(* Errors and console.error reports.                                       *)
(***************************************************************************)
NoError == [name |-> "none", message |-> <<>>]

\* new Error('Discord API error: ' + response.status + ' - ' + errorText)
ApiError(status, text) ==
    [name |-> "Error",
     message |-> <<"D","i","s","c","o","r","d"," ","A","P","I"," ",
                   "e","r","r","o","r",":"," ">>
                 \o NumToStr(status) \o <<" ","-"," ">> \o text]

\* what fetch() rejects with when no response arrives
NetworkError == [name |-> "FetchError", message |-> <<"n","e","t">>]

\* what response.text() rejects with when the body cannot be read
BodyError == [name |-> "FetchError", message |-> <<"b","o","d","y">>]

\* what JSON.stringify throws on a cyclic structure
CyclicError == [name |-> "TypeError", message |-> <<"c","y","c","l","i","c">>]

\* console.error at source line line, made on behalf of call c
Report(c, line, err, afterReturn) ==
    [call |-> c, line |-> line, error |-> err, afterReturn |-> afterReturn]

\* Response.ok
ResponseOk(status) == status >= 200 /\ status <= 299

(***************************************************************************)
(* AlertNowBuilder (index.ts:123-174).                                     *)
(***************************************************************************)
discord == <<"d","i","s","c","o","r","d">>

Returned(op, arg) == [op |-> op, arg |-> arg, result |-> "return", error |-> ""]

Threw(op, arg, msg) == [op |-> op, arg |-> arg, result |-> "throw", error |-> msg]

\* new AlertNow(driver, webhookUrl)
AlertNowCtor(d, u) == [driver |-> d, webhookUrl |-> u]

\* Faulty variant: the driver is compared without lower-casing
SetDriverCaseSensitive(d) ==
    /\ IF ~Truthy(d) \/ ~IsString(d)
       THEN /\ lastCall' = Threw("setDriver", d, "Driver must be a valid string")
            /\ UNCHANGED <<driver, everDriverSet>>
       ELSE IF d.str # discord
       THEN /\ lastCall' = Threw("setDriver", d,
                                 "Currently only \"discord\" driver is supported")
            /\ UNCHANGED <<driver, everDriverSet>>
       ELSE /\ driver' = Str(ToLowerCase(d.str))
            /\ everDriverSet' = TRUE
            /\ lastCall' = Returned("setDriver", d)
    /\ UNCHANGED <<webhookUrl, senders, calls, requests, reports, everWebhookSet>>

\* Faulty variant: the driver is stored as given
SetDriverKeepCase(d) ==
    /\ IF ~Truthy(d) \/ ~IsString(d)
       THEN /\ lastCall' = Threw("setDriver", d, "Driver must be a valid string")
            /\ UNCHANGED <<driver, everDriverSet>>
       ELSE IF ToLowerCase(d.str) # discord
       THEN /\ lastCall' = Threw("setDriver", d,
                                 "Currently only \"discord\" driver is supported")
            /\ UNCHANGED <<driver, everDriverSet>>
       ELSE /\ driver' = d
            /\ everDriverSet' = TRUE
            /\ lastCall' = Returned("setDriver", d)
    /\ UNCHANGED <<webhookUrl, senders, calls, requests, reports, everWebhookSet>>

\* Faulty variant: the driver is stored before it is checked against "discord"
SetDriverStoreFirst(d) ==
    /\ IF ~Truthy(d) \/ ~IsString(d)
       THEN /\ lastCall' = Threw("setDriver", d, "Driver must be a valid string")
            /\ UNCHANGED <<driver, everDriverSet>>
       ELSE IF ToLowerCase(d.str) # discord
       THEN /\ lastCall' = Threw("setDriver", d,
                                 "Currently only \"discord\" driver is supported")
            /\ driver' = Str(ToLowerCase(d.str))
            /\ UNCHANGED everDriverSet
       ELSE /\ driver' = Str(ToLowerCase(d.str))
            /\ everDriverSet' = TRUE
            /\ lastCall' = Returned("setDriver", d)
    /\ UNCHANGED <<webhookUrl, senders, calls, requests, reports, everWebhookSet>>

SetDriver(d) ==
    /\ IF ~Truthy(d) \/ ~IsString(d)
       THEN /\ lastCall' = Threw("setDriver", d, "Driver must be a valid string")
            /\ UNCHANGED <<driver, everDriverSet>>
       ELSE IF ToLowerCase(d.str) # discord
       THEN /\ lastCall' = Threw("setDriver", d,
                                 "Currently only \"discord\" driver is supported")
            /\ UNCHANGED <<driver, everDriverSet>>
       ELSE /\ driver' = Str(ToLowerCase(d.str))
            /\ everDriverSet' = TRUE
            /\ lastCall' = Returned("setDriver", d)
    /\ UNCHANGED <<webhookUrl, senders, calls, requests, reports, everWebhookSet>>

\* Faulty variant: the instances read the builder's webhookUrl instead of a copy
SetWebhookShared(u) ==
    /\ IF ~Truthy(u) \/ ~IsString(u)
       THEN /\ lastCall' = Threw("setWebhook", u, "A valid webhook URL is required")
            /\ UNCHANGED <<webhookUrl, everWebhookSet, senders>>
       ELSE /\ webhookUrl' = u
            /\ everWebhookSet' = TRUE
            /\ senders' = [i \in DOMAIN senders |->
                              [senders[i] EXCEPT !.webhookUrl = u]]
            /\ lastCall' = Returned("setWebhook", u)
    /\ UNCHANGED <<driver, calls, requests, reports, everDriverSet>>

SetWebhook(u) ==
    /\ IF ~Truthy(u) \/ ~IsString(u)
       THEN /\ lastCall' = Threw("setWebhook", u, "A valid webhook URL is required")
            /\ UNCHANGED <<webhookUrl, everWebhookSet>>
       ELSE /\ webhookUrl' = u
            /\ everWebhookSet' = TRUE
            /\ lastCall' = Returned("setWebhook", u)
    /\ UNCHANGED <<driver, senders, calls, requests, reports, everDriverSet>>

\* Faulty variant: build() does not check the webhook URL
BuildDriverOnly ==
    /\ IF ~Truthy(driver)
       THEN /\ lastCall' = Threw("build", Undefined, "Driver must be set before building")
            /\ UNCHANGED senders
       ELSE /\ senders' = Append(senders, AlertNowCtor(driver, webhookUrl))
            /\ lastCall' = Returned("build", Undefined)
    /\ UNCHANGED <<driver, webhookUrl, calls, requests, reports,
                   everDriverSet, everWebhookSet>>

Build ==
    /\ IF ~Truthy(driver)
       THEN /\ lastCall' = Threw("build", Undefined, "Driver must be set before building")
            /\ UNCHANGED senders
       ELSE IF ~Truthy(webhookUrl)
       THEN /\ lastCall' = Threw("build", Undefined,
                                 "Webhook URL must be set before building")
            /\ UNCHANGED senders
       ELSE /\ senders' = Append(senders, AlertNowCtor(driver, webhookUrl))
            /\ lastCall' = Returned("build", Undefined)
    /\ UNCHANGED <<driver, webhookUrl, calls, requests, reports,
                   everDriverSet, everWebhookSet>>

(***************************************************************************)
(* AlertNow.send and the synchronous part of _sendDiscord                  *)
(* (index.ts:33-56, 66-87).                                                *)
(***************************************************************************)
\* !this.driver || !this.webhookUrl
NotConfigured(sender) == ~Truthy(sender.driver) \/ ~Truthy(sender.webhookUrl)

\* Faulty variant: only the type of the title is checked
TitleInvalidTypeOnly(title) == ~IsString(title)

\* !title || typeof title !== 'string'
TitleInvalid(title) == ~Truthy(title) \/ ~IsString(title)

\* !message || typeof message !== 'string'
MessageInvalid(message) == ~Truthy(message) \/ ~IsString(message)

\* the record of a send call; pc is where its asynchronous work stands:
\*   "done"     nothing is pending
\*   "fetching" _sendDiscord is suspended at await fetch(...)
\*   "reading"  _sendDiscord is suspended at await response.text()
\*   "rejected" the promise of _sendDiscord is rejected, .catch is pending
Call(s, title, message, data, pc, dispatched, err) ==
    [sender |-> s, title |-> title, message |-> message, data |-> data,
     pc |-> pc, returned |-> TRUE, raised |-> FALSE, dispatched |-> dispatched,
     status |-> 0, text |-> <<>>, error |-> err]

Send(s, title, message, data) ==
    LET c == Len(calls) + 1
        this == senders[s]
    IN /\ s \in DOMAIN senders
       /\ lastCall' = Returned("send", Undefined)
       /\ IF NotConfigured(this)
          THEN /\ reports' = Append(reports, Report(c, 35, NoError, FALSE))
               /\ calls' = Append(calls, Call(s, title, message, data, "done", FALSE, NoError))
               /\ UNCHANGED requests
          ELSE IF TitleInvalid(title)
          THEN /\ reports' = Append(reports, Report(c, 40, NoError, FALSE))
               /\ calls' = Append(calls, Call(s, title, message, data, "done", FALSE, NoError))
               /\ UNCHANGED requests
          ELSE IF MessageInvalid(message)
          THEN /\ reports' = Append(reports, Report(c, 45, NoError, FALSE))
               /\ calls' = Append(calls, Call(s, title, message, data, "done", FALSE, NoError))
               /\ UNCHANGED requests
          ELSE IF this.driver = Str(discord)
          THEN IF RenderThrows(data)
               THEN /\ calls' = Append(calls, Call(s, title, message, data,
                                                   "rejected", TRUE, CyclicError))
                    /\ UNCHANGED <<requests, reports>>
               ELSE /\ requests' = Append(requests,
                                          FetchRequest(c, this.webhookUrl.str,
                                                       Content(title.str, message.str, data)))
                    /\ calls' = Append(calls, Call(s, title, message, data,
                                                   "fetching", TRUE, NoError))
                    /\ UNCHANGED reports
          ELSE /\ calls' = Append(calls, Call(s, title, message, data, "done", FALSE, NoError))
               /\ UNCHANGED <<requests, reports>>
       /\ UNCHANGED <<driver, webhookUrl, senders, everDriverSet, everWebhookSet>>

(***************************************************************************)
(* The asynchronous continuations of _sendDiscord (index.ts:88-98) and the *)
(* .catch handler of send (index.ts:52-54).                                *)
(***************************************************************************)
\* fetch() resolved with a response: lines 89-94
FetchResolved(c, status, text) ==
    /\ c \in DOMAIN calls
    /\ calls[c].pc = "fetching"
    /\ calls' = [calls EXCEPT ![c].status = status, ![c].text = text,
                              ![c].pc = IF ResponseOk(status) THEN "done" ELSE "reading"]
    /\ UNCHANGED <<driver, webhookUrl, senders, requests, reports, lastCall,
                   everDriverSet, everWebhookSet>>

\* Faulty variant: a rejected fetch is retried once
FetchRejectedRetry(c) ==
    /\ c \in DOMAIN calls
    /\ calls[c].pc = "fetching"
    /\ IF Cardinality({r \in DOMAIN requests : requests[r].call = c}) < 2
       THEN /\ requests' = Append(requests, [requests[CHOOSE r \in DOMAIN requests :
                                                requests[r].call = c] EXCEPT !.call = c])
            /\ UNCHANGED <<calls, reports>>
       ELSE /\ reports' = Append(reports, Report(c, 96, NetworkError, calls[c].returned))
            /\ calls' = [calls EXCEPT ![c].pc = "rejected", ![c].error = NetworkError]
            /\ UNCHANGED requests
    /\ UNCHANGED <<driver, webhookUrl, senders, lastCall,
                   everDriverSet, everWebhookSet>>

\* fetch() rejected: the catch block, lines 95-97
FetchRejected(c) ==
    /\ c \in DOMAIN calls
    /\ calls[c].pc = "fetching"
    /\ reports' = Append(reports, Report(c, 96, NetworkError, calls[c].returned))
    /\ calls' = [calls EXCEPT ![c].pc = "rejected", ![c].error = NetworkError]
    /\ UNCHANGED <<driver, webhookUrl, senders, requests, lastCall,
                   everDriverSet, everWebhookSet>>

\* Faulty variant: the error is built from the response text alone
TextResolvedNoStatus(c) ==
    /\ c \in DOMAIN calls
    /\ calls[c].pc = "reading"
    /\ LET err == [name |-> "Error", message |-> calls[c].text]
       IN /\ reports' = Append(reports, Report(c, 96, err, calls[c].returned))
          /\ calls' = [calls EXCEPT ![c].pc = "rejected", ![c].error = err]
    /\ UNCHANGED <<driver, webhookUrl, senders, requests, lastCall,
                   everDriverSet, everWebhookSet>>

\* response.text() resolved: line 91 throws, the catch block reports and rethrows
TextResolved(c) ==
    /\ c \in DOMAIN calls
    /\ calls[c].pc = "reading"
    /\ LET err == ApiError(calls[c].status, calls[c].text)
       IN /\ reports' = Append(reports, Report(c, 96, err, calls[c].returned))
          /\ calls' = [calls EXCEPT ![c].pc = "rejected", ![c].error = err]
    /\ UNCHANGED <<driver, webhookUrl, senders, requests, lastCall,
                   everDriverSet, everWebhookSet>>

\* response.text() rejected: the catch block reports and rethrows
TextRejected(c) ==
    /\ c \in DOMAIN calls
    /\ calls[c].pc = "reading"
    /\ reports' = Append(reports, Report(c, 96, BodyError, calls[c].returned))
    /\ calls' = [calls EXCEPT ![c].pc = "rejected", ![c].error = BodyError]
    /\ UNCHANGED <<driver, webhookUrl, senders, requests, lastCall,
                   everDriverSet, everWebhookSet>>

\* .catch(error => console.error('AlertNow Error:', error))
CatchHandler(c) ==
    /\ c \in DOMAIN calls
    /\ calls[c].pc = "rejected"
    /\ reports' = Append(reports, Report(c, 53, calls[c].error, calls[c].returned))
    /\ calls' = [calls EXCEPT ![c].pc = "done"]
    /\ UNCHANGED <<driver, webhookUrl, senders, requests, lastCall,
                   everDriverSet, everWebhookSet>>

(***************************************************************************)
(* Inputs.                                                                 *)
(***************************************************************************)
DriverInputs ==
    {Str(discord), Str(<<"D","I","S","C","O","R","D">>),
     Str(<<"D","i","s","c","o","r","d">>), Str(<<"s","l","a","c","k">>),
     Str(<<>>), Null, Num(5)}

url1 == <<"h","/","1">>

url2 == <<"h","/","2">>

WebhookInputs == {Str(url1), Str(url2), Str(<<>>), Null, Num(5)}

Statuses == {200, 204, 404, 500}

\* lifecycle and concurrency specifications
FewStatuses == {200, 500}

ResponseTexts == {<<"b","a","d">>}

\* lifecycle specification
LifeDrivers ==
    {Str(discord), Str(<<"D","I","S","C","O","R","D">>), Str(<<"s","l","a","c","k">>)}

LifeWebhooks == {Str(url1), Str(url2), Str(<<>>)}

LifeTitles == {Str(<<"A">>), Str(<<>>)}

LifeMessages == {Str(<<"M">>)}

LifeData == {DataUndefined}

\* dispatch specification
SendTitles == {Str(<<"A">>), Str(<<"B">>), Str(<<>>), Null, Num(5)}

SendMessages == {Str(<<"M">>), Null}

SendData ==
    {DataUndefined, DataNull,
     DataObject(<<Prop(<<"k">>, <<"v">>)>>),
     DataObject(<<Prop(<<"k">>, <<"v">>), SelfProp(<<"s">>)>>)}

\* concurrency specification
OverlapTitles == {Str(<<"A">>), Str(<<"B">>)}

OverlapMessages == {Str(<<"M">>)}

OverlapData == {DataUndefined, DataObject(<<SelfProp(<<"s">>)>>)}

\* rendering specification
RenderTitles ==
    {Str(<<"T">>), Str(<<"$","t","i","t","l","e">>),
     Str(<<"$","m","e","s","s","a","g","e">>), Str(<<"$","d","a","t","a">>),
     Str(<<"$","&">>), Str(<<"$","$">>), Str(<<"\"">>)}

RenderMessages ==
    {Str(<<"M">>), Str(<<"$","d","a","t","a">>), Str(<<"$","t","i","t","l","e">>),
     Str(<<"$",BQ>>), Str(<<"a","\n","\\">>)}

RenderData ==
    {DataUndefined, DataNull, DataObject(<<>>),
     DataObject(<<Prop(<<"k">>, <<"v">>)>>),
     DataObject(<<Prop(<<"k">>, <<"$","'">>)>>),
     DataObject(<<Prop(<<"a">>, <<"1">>), Prop(<<"b">>, <<"\"">>)>>)}

(***************************************************************************)
(* Specifications.                                                         *)
(***************************************************************************)
\* new AlertNowBuilder()
Init ==
    /\ driver = Null
    /\ webhookUrl = Null
    /\ senders = <<>>
    /\ calls = <<>>
    /\ requests = <<>>
    /\ reports = <<>>
    /\ lastCall = Returned("new", Undefined)
    /\ everDriverSet = FALSE
    /\ everWebhookSet = FALSE

\* the continuations that may run, with the statuses a response may have
SettleWith(statuses) ==
    \/ \E c \in DOMAIN calls, st \in statuses, tx \in ResponseTexts :
          FetchResolved(c, st, tx)
    \/ \E c \in DOMAIN calls : FetchRejected(c)
    \/ \E c \in DOMAIN calls : TextResolved(c)
    \/ \E c \in DOMAIN calls : TextRejected(c)
    \/ \E c \in DOMAIN calls : CatchHandler(c)

\* the whole public API, driven by a caller
Next ==
    \/ \E d \in LifeDrivers : SetDriver(d)
    \/ \E u \in LifeWebhooks : SetWebhook(u)
    \/ Len(senders) < MaxSenders /\ Build
    \/ \E s \in DOMAIN senders, t \in LifeTitles, m \in LifeMessages, d \in LifeData :
          Len(calls) < MaxSends /\ Send(s, t, m, d)
    \/ SettleWith(FewStatuses)

Spec == Init /\ [][Next]_vars

\* the builder alone, over all kinds of arguments
NextBuilder ==
    \/ \E d \in DriverInputs : SetDriver(d)
    \/ \E u \in WebhookInputs : SetWebhook(u)
    \/ Len(senders) < MaxSenders /\ Build

SpecBuilder == Init /\ [][NextBuilder]_vars

\* new AlertNowBuilder().setDriver("discord").setWebhook(url1).build()
InitSend ==
    /\ driver = Str(discord)
    /\ webhookUrl = Str(url1)
    /\ senders = <<AlertNowCtor(Str(discord), Str(url1))>>
    /\ calls = <<>>
    /\ requests = <<>>
    /\ reports = <<>>
    /\ lastCall = Returned("build", Undefined)
    /\ everDriverSet = TRUE
    /\ everWebhookSet = TRUE

\* send calls on one instance, over all kinds of arguments and outcomes
NextSend ==
    \/ \E t \in SendTitles, m \in SendMessages, d \in SendData :
          Len(calls) < MaxCalls /\ Send(1, t, m, d)
    \/ SettleWith(Statuses)

SpecSend == InitSend /\ [][NextSend]_vars

\* send calls on one instance whose exchanges overlap
NextOverlap ==
    \/ \E t \in OverlapTitles, m \in OverlapMessages, d \in OverlapData :
          Len(calls) < MaxOverlap /\ Send(1, t, m, d)
    \/ SettleWith(FewStatuses)

SpecOverlap == InitSend /\ [][NextOverlap]_vars

\* send calls with templates' special characters in the arguments
NextRender ==
    \E t \in RenderTitles, m \in RenderMessages, d \in RenderData :
        Len(calls) < MaxRenders /\ Send(1, t, m, d)

SpecRender == InitSend /\ [][NextRender]_vars

(***************************************************************************)
(* Vocabulary of the properties.                                           *)
(***************************************************************************)
\* an argument that is empty, null, undefined or not a string
Missing(v) == v.type # "string" \/ Len(v.str) = 0

\* sub occurs in s
Contains(s, sub) ==
    \E i \in 1..(Len(s) - Len(sub) + 1) : SubSeq(s, i, i + Len(sub) - 1) = sub

UpperChar(c) ==
    IF \E i \in DOMAIN LowerChars : LowerChars[i] = c
    THEN UpperChars[CHOOSE i \in DOMAIN LowerChars : LowerChars[i] = c]
    ELSE c

\* a and b are equal ignoring letter case
EqualsIgnoreCase(a, b) ==
    /\ Len(a) = Len(b)
    /\ \A i \in DOMAIN a : UpperChar(a[i]) = UpperChar(b[i])

\* the requests made on behalf of call c
RequestsOf(c) == {r \in DOMAIN requests : requests[r].call = c}

\* the reports made on behalf of call c
ReportsOf(c) == {r \in DOMAIN reports : reports[r].call = c}

\* what a JSON parser reads from the inside of a JSON string literal:
\* position i opens an escape when it is a backslash preceded by an even
\* number of backslashes
BackslashesBefore(s, i) ==
    Cardinality({k \in 1..(i - 1) : \A j \in k..(i - 1) : s[j] = "\\"})

OpensEscape(s, i) == s[i] = "\\" /\ BackslashesBefore(s, i) % 2 = 0

DecodeAt(s, i) ==
    IF OpensEscape(s, i) THEN <<>>
    ELSE IF i > 1 /\ OpensEscape(s, i - 1)
    THEN (IF s[i] = "n" THEN <<"\n">> ELSE <<s[i]>>)
    ELSE <<s[i]>>

RECURSIVE DecodeRange(_, _, _)
DecodeRange(s, lo, hi) ==
    IF lo > hi THEN <<>>
    ELSE IF lo = hi THEN DecodeAt(s, lo)
    ELSE LET mid == (lo + hi) \div 2
         IN DecodeRange(s, lo, mid) \o DecodeRange(s, mid + 1, hi)

\* the content field a JSON parser reads from a request body of the form
\* {"content":"..."}; <<"?">> stands for a body of another form
ContentField(body) ==
    LET open == <<"{", "\"", "c","o","n","t","e","n","t", "\"", ":", "\"">>
        n == Len(body)
    IN IF /\ n >= Len(open) + 2
          /\ SubSeq(body, 1, Len(open)) = open
          /\ SubSeq(body, n - 1, n) = <<"\"", "}">>
       THEN LET inner == SubSeq(body, Len(open) + 1, n - 2)
            IN DecodeRange(inner, 1, Len(inner))
       ELSE <<"?">>

(***************************************************************************)
(* Properties.                                                             *)
(***************************************************************************)
ValidArgs(c) == ~Missing(calls[c].title) /\ ~Missing(calls[c].message)

\* JSON.stringify can serialize the data of call c
Serializable(c) == \A i \in DOMAIN calls[c].data.entries : ~calls[c].data.entries[i].cyclic

\* the one request of call c goes to the endpoint of its instance, as a JSON
\* POST whose content field is the text rendered from the call's arguments
OwnRequest(c) ==
    /\ Cardinality(RequestsOf(c)) = 1
    /\ \A r \in RequestsOf(c) :
          /\ requests[r].url = senders[calls[c].sender].webhookUrl.str
          /\ requests[r].method = "POST"
          /\ requests[r].contentType = "application/json"
          /\ ContentField(requests[r].body)
                = Content(calls[c].title.str, calls[c].message.str, calls[c].data)

\* C1: a send call whose title or message is empty, null or not a string
\* returns without raising, never issues an HTTP request, and has emitted an
\* error report.
C1_InvalidArgsReported ==
    \A c \in DOMAIN calls :
        (Missing(calls[c].title) \/ Missing(calls[c].message)) =>
            /\ calls[c].returned
            /\ ~calls[c].raised
            /\ calls[c].pc = "done"
            /\ RequestsOf(c) = {}
            /\ \E r \in ReportsOf(c) : reports[r].line \in {40, 45}

C1_Witness ==
    \E c \in DOMAIN calls :
        /\ calls[c].title = Num(5)
        /\ RequestsOf(c) = {}
        /\ \E r \in ReportsOf(c) : reports[r].line = 40

\* C2 (as stated): every send call with a non-empty string title and message
\* and any data mapping has issued exactly one HTTP POST of its rendered text.
C2_AnyDataOnePost ==
    \A c \in DOMAIN calls : ValidArgs(c) => OwnRequest(c)

\* C2 (amended): every send call with a non-empty string title and message
\* and data that JSON.stringify can serialize has issued exactly one HTTP POST
\* to its endpoint, with Content-Type application/json and a JSON body whose
\* content field is the rendered text; never zero, never a second one,
\* whatever the outcome of the exchange.
C2_SerializableOnePost ==
    \A c \in DOMAIN calls : (ValidArgs(c) /\ Serializable(c)) => OwnRequest(c)

C2_Witness ==
    \E c \in DOMAIN calls :
        /\ ValidArgs(c)
        /\ calls[c].data # DataUndefined
        /\ calls[c].pc = "done"
        /\ calls[c].error = NetworkError
        /\ Cardinality(RequestsOf(c)) = 1

\* the text the fixed layout prescribes for a title, a message and a data block
Layout(title, message, dataBlock) ==
    <<"*","*">> \o title
    \o <<"*","*","\n","\n","m","e","s","s","a","g","e",":",BQ,BQ,BQ,"\n","\n">>
    \o message \o <<BQ,BQ,BQ,"\n">> \o dataBlock \o <<"\n">>

DataBlock(data) ==
    IF data.type = "object" /\ Len(data.entries) > 0
    THEN <<"d","a","t","a",":",BQ,BQ,BQ,"\n","\n">> \o JSONStringify(data)
         \o <<BQ,BQ,BQ,"\n">>
    ELSE <<>>

\* C3: the rendered body of every request is the fixed layout with the title,
\* the message and the serialized data verbatim in their own slots.
C3_RenderedIsLayout ==
    \A r \in DOMAIN requests :
        LET c == requests[r].call
        IN ContentField(requests[r].body)
              = Layout(calls[c].title.str, calls[c].message.str, DataBlock(calls[c].data))

\* the exchange of call c failed: fetch rejected, or the status is not 2xx
ExchangeFailed(c) ==
    /\ RequestsOf(c) # {}
    /\ calls[c].pc = "done"
    /\ calls[c].error # NoError

\* the report carries the HTTP status and the response text of call c
CarriesStatusAndText(r, c) ==
    /\ calls[c].status # 0
    /\ Contains(reports[r].error.message, NumToStr(calls[c].status))
    /\ Contains(reports[r].error.message, calls[c].text)

\* C4 (as stated): whenever the exchange of a send call has failed, by a
\* network failure or a non-2xx status, a report carrying the HTTP status and
\* the response text has been emitted after send returned.
C4_EveryFailureCarriesStatus ==
    \A c \in DOMAIN calls :
        ExchangeFailed(c) =>
            \E r \in ReportsOf(c) : reports[r].afterReturn /\ CarriesStatusAndText(r, c)

\* C4 (amended): whenever the exchange of a valid send has failed, send has
\* returned without raising and the failure is reported, on the side channel
\* only and strictly after send returned; a non-2xx response is read as text
\* and, when that read succeeds, the report carries the HTTP status and the
\* response text; a network failure (or a failed read of the body) is
\* reported with the transport's error, which carries no status.
C4_FailureReportedAfterReturn ==
    /\ \A r \in DOMAIN reports :
          reports[r].line \in {53, 96} =>
              /\ reports[r].afterReturn
              /\ calls[reports[r].call].returned
              /\ ~calls[reports[r].call].raised
    /\ \A c \in DOMAIN calls :
          /\ (calls[c].status # 0 /\ ~(calls[c].status \in 200..299)) =>
                \/ calls[c].pc = "reading"
                \/ calls[c].error \in {ApiError(calls[c].status, calls[c].text), BodyError}
          /\ (calls[c].status \in 200..299) => calls[c].error = NoError /\ calls[c].pc = "done"
          /\ ExchangeFailed(c) =>
                /\ \E r \in ReportsOf(c) :
                      reports[r].line = 96 /\ reports[r].error = calls[c].error
                /\ \E r \in ReportsOf(c) :
                      reports[r].line = 53 /\ reports[r].error = calls[c].error
                /\ (calls[c].status # 0 /\ calls[c].error # BodyError) =>
                      \A r \in ReportsOf(c) : CarriesStatusAndText(r, c)
                /\ (calls[c].status = 0) =>
                      \A r \in ReportsOf(c) : reports[r].error = NetworkError

C4_Witness ==
    \E c \in DOMAIN calls :
        /\ ExchangeFailed(c)
        /\ calls[c].status = 500
        /\ \E r \in ReportsOf(c) : reports[r].line = 53 /\ CarriesStatusAndText(r, c)

\* C5 (as stated): the number of HTTP POSTs equals the number of valid send
\* calls, each carrying the text rendered from its own call's arguments.
C5_PostPerValidCall ==
    /\ Len(requests) = Cardinality({c \in DOMAIN calls : ValidArgs(c)})
    /\ \A c \in DOMAIN calls : ValidArgs(c) => OwnRequest(c)

\* every step changes at most one call and leaves the requests issued so far
\* as they were
OneCallPerStep ==
    /\ \A c \in DOMAIN calls :
          /\ c \in DOMAIN calls'
          /\ calls'[c] # calls[c] =>
                \A d \in DOMAIN calls \ {c} : calls'[d] = calls[d]
    /\ Len(requests') >= Len(requests)
    /\ SubSeq(requests', 1, Len(requests)) = requests

\* the settling of an exchange in flight never waits for another call
NeverBlocked ==
    \A c \in DOMAIN calls :
        calls[c].pc = "fetching" =>
            /\ ENABLED FetchRejected(c)
            /\ ENABLED FetchResolved(c, 200, <<"b","a","d">>)

\* C5 (amended): for any number of send calls with valid title and message
\* and serializable data made on one instance while earlier exchanges are
\* in flight, the number of POSTs equals the number of such calls, each POST
\* carries the text rendered from its own call, and no call's dispatch or
\* completion waits for, alters or is altered by another call's exchange.
C5_IndependentCalls ==
    /\ [](/\ Len(requests)
               = Cardinality({c \in DOMAIN calls : ValidArgs(c) /\ Serializable(c)})
          /\ \A c \in DOMAIN calls : (ValidArgs(c) /\ Serializable(c)) => OwnRequest(c)
          /\ NeverBlocked)
    /\ [][OneCallPerStep]_vars

C5_Witness ==
    /\ Len(calls) >= 2
    /\ calls[1].pc = "fetching"
    /\ calls[2].pc = "done"
    /\ calls[2].error # NoError
    /\ calls[1].title # calls[2].title
    /\ Len(requests) = 2

\* C6: build() returns an instance exactly when a setDriver call and a
\* setWebhook call have both returned normally before, in either order;
\* otherwise it throws, naming the driver when the driver is unset and the
\* webhook URL when only the webhook URL is unset.
C6_BuildIffBothSet ==
    lastCall.op = "build" =>
        /\ (lastCall.result = "return") <=> (everDriverSet /\ everWebhookSet)
        /\ ~everDriverSet =>
              lastCall = Threw("build", Undefined, "Driver must be set before building")
        /\ (everDriverSet /\ ~everWebhookSet) =>
              lastCall = Threw("build", Undefined, "Webhook URL must be set before building")

C6_Witness ==
    /\ lastCall = Returned("build", Undefined)
    /\ Len(senders) = 1
    /\ senders[1] = [driver |-> Str(discord), webhookUrl |-> Str(url2)]

\* a platform identifier that is empty, not a string or not "discord"
\* ignoring case
InvalidPlatform(v) == Missing(v) \/ ~EqualsIgnoreCase(v.str, discord)

\* C7: setDriver with an invalid identifier throws and leaves the builder's
\* stored driver and webhook URL exactly as they were.
C7_RejectedSetDriverKeepsState ==
    [][ (lastCall'.op = "setDriver" /\ InvalidPlatform(lastCall'.arg)) =>
            /\ lastCall'.result = "throw"
            /\ driver' = driver
            /\ webhookUrl' = webhookUrl ]_vars

C7_Witness ==
    /\ lastCall.op = "setDriver"
    /\ lastCall.result = "throw"
    /\ lastCall.arg = Str(<<"s","l","a","c","k">>)
    /\ driver = Str(discord)

\* C8: setDriver accepts every identifier equal to "discord" ignoring letter
\* case and stores the lower-case "discord" for each of them.
C8_CaseInsensitive ==
    (lastCall.op = "setDriver" /\ ~InvalidPlatform(lastCall.arg)) =>
        /\ lastCall.result = "return"
        /\ driver = Str(discord)

C8_Witness ==
    /\ lastCall = Returned("setDriver", Str(<<"D","I","S","C","O","R","D">>))
    /\ driver = Str(discord)

\* a step in which build() returns an instance
BuildReturns ==
    /\ lastCall' = Returned("build", Undefined)
    /\ calls' = calls
    /\ driver' = driver
    /\ webhookUrl' = webhookUrl
    /\ (lastCall # lastCall' \/ senders' # senders)

C10_InstancesConfigured ==
    /\ \A i \in DOMAIN senders :
          /\ senders[i].driver = Str(discord)
          /\ ~Missing(senders[i].webhookUrl)
    /\ \A r \in DOMAIN reports : reports[r].line # 35
    /\ \A c \in DOMAIN calls : ValidArgs(c) <=> calls[c].dispatched

C10_Witness ==
    /\ lastCall.op = "setWebhook"
    /\ lastCall.result = "throw"
    /\ \E c \in DOMAIN calls : calls[c].dispatched /\ RequestsOf(c) # {}

====
